---------------------------- MODULE Spec2Model ----------------------------
(***************************************************************************)
(* The CoAP message codec of go-coap (message.go) and the two server.go    *)
(* entry points that drive it (Transmit, handlePacket/Receive).            *)
(*                                                                         *)
(* A byte is a number in 0..255 and a byte slice a sequence of bytes.  A   *)
(* Go string is modelled by its bytes: []byte(s) and string(b) copy the    *)
(* bytes unchanged.  An option value (interface{}) is a record             *)
(*     [kind, n, b]                                                        *)
(* where kind is the dynamic Go type, n the number of an integer kind and  *)
(* b the bytes of a string or []byte.  A 32-bit number is the pair         *)
(* <<hi, lo>> of its 16-bit halves (its value is hi * 65536 + lo); for an  *)
(* integer kind wider or narrower than 32 bits, n is what uint32(i) keeps. *)
(***************************************************************************)
EXTENDS Integers, Sequences, FiniteSets, TLC

VARIABLES
    m,       \* the caller's Message (Type, Code, MessageID, Payload, opts)
    before,  \* history: the Message as it was handed to encodeMessage
    enc,     \* result of the last encodeMessage call
    wire,    \* the datagram written to / read from the socket
    rcv,     \* result of the last parseMessage call
    pc       \* "idle" (message being built), "sent", "done"

vars == <<m, before, enc, wire, rcv, pc>>

(***************************************************************************)
(* Integer helpers: fixed-width arithmetic as Go does it.                  *)
(***************************************************************************)
RECURSIVE BitOr(_, _)
BitOr(a, b) ==
    IF a = 0 THEN b
    ELSE IF b = 0 THEN a
    ELSE (IF a % 2 = 1 \/ b % 2 = 1 THEN 1 ELSE 0) + 2 * BitOr(a \div 2, b \div 2)

RECURSIVE BitAnd(_, _)
BitAnd(a, b) ==
    IF a = 0 \/ b = 0 THEN 0
    ELSE (IF a % 2 = 1 /\ b % 2 = 1 THEN 1 ELSE 0) + 2 * BitAnd(a \div 2, b \div 2)

\* byte(x): conversion of an int to uint8
byte(x) == x % 256

\* x << 4 and x >> 4 / x >> 6 on a uint8
Shl4(x) == (x * 16) % 256
Shr4(x) == x \div 16
Shr6(x) == x \div 64

\* v < k for a 32-bit v = <<hi, lo>> and a constant k
Lt32(v, k) ==
    \/ v[1] < k \div 65536
    \/ v[1] = k \div 65536 /\ v[2] < k % 65536

\* binary.BigEndian.PutUint16 / PutUint32 / Uint16 / Uint32
PutUint16(v) == << (v \div 256) % 256, v % 256 >>
PutUint32(v) == PutUint16(v[1]) \o PutUint16(v[2])
Uint16(b) == b[1] * 256 + b[2]
Uint32(b) == << b[1] * 256 + b[2], b[3] * 256 + b[4] >>

Range(s) == { s[i] : i \in 1..Len(s) }

\* n copies of byte x
Rep(x, n) == [i \in 1..n |-> x]

(***************************************************************************)
(* Program constants.                                                      *)
(***************************************************************************)
Confirmable == 0
NonConfirmable == 1
Acknowledgement == 2
Reset == 3

GET == 1
Content == 69

ContentType == 1
MaxAge == 2
ProxyURI == 3
ETag == 4
URIHost == 5
LocationPath == 6
URIPort == 7
LocationQuery == 8
URIPath == 9
Token == 11
Accept == 12
IfMatch == 13
UriQuery == 15
IfNoneMatch == 21

\* len(m.opts) > 14 / opCount > 14
MaxOptions == 14
\* len(data) < 6
MinPacket == 6

(***************************************************************************)
(* Option values.                                                          *)
(***************************************************************************)
Str(b)   == [kind |-> "string",    n |-> <<0, 0>>, b |-> b]
Bytes(b) == [kind |-> "bytes",     n |-> <<0, 0>>, b |-> b]
Media(n) == [kind |-> "MediaType", n |-> n, b |-> <<>>]
U32(n)   == [kind |-> "uint32",    n |-> n, b |-> <<>>]
\* a value of a type toBytes does not know: the nil interface
Nil      == [kind |-> "nil",       n |-> <<0, 0>>, b |-> <<>>]

IntKinds == {"MediaType", "int", "int32", "uint", "uint32"}
KnownKinds == {"string", "bytes"} \cup IntKinds

Opt(id, val) == [ID |-> id, Value |-> val]


(***************************************************************************)
(* encodeInt / decodeInt / option.toBytes                                  *)
(***************************************************************************)
\* the 3-byte case without its rv[1:]
encodeIntOff(v) ==
    IF v = <<0, 0>> THEN <<>>
    ELSE IF Lt32(v, 256) THEN << byte(v[2]) >>
    ELSE IF Lt32(v, 65536) THEN PutUint16(v[2])
    ELSE PutUint32(v)

encodeInt(v) ==
    IF v = <<0, 0>> THEN <<>>
    ELSE IF Lt32(v, 256) THEN << byte(v[2]) >>
    ELSE IF Lt32(v, 65536) THEN PutUint16(v[2])
    ELSE IF Lt32(v, 16777216) THEN Tail(PutUint32(v))
    ELSE PutUint32(v)

\* tmp[4-len(b):] with len(b) > 4 is a slice with a negative low bound:
\* the Go runtime panics.
decodeIntPanics(b) == 4 - Len(b) < 0

\* copy(tmp[4-len(b):], b) over tmp = {0,0,0,0}, then BigEndian.Uint32(tmp)
decodeInt(b) == Uint32(Rep(0, 4 - Len(b)) \o b)

\* the default: branch of the type switch panics
toBytesPanics(o) == o.Value.kind \notin KnownKinds

toBytes(o) ==
    CASE o.Value.kind = "string" -> o.Value.b
      [] o.Value.kind = "bytes"  -> o.Value.b
      [] OTHER                   -> encodeInt(o.Value.n)

(***************************************************************************)
(* type options: Len, Less, Swap, Minus (indices are 1-based here)         *)
(***************************************************************************)
Less(o, i, j) ==
    IF o[i].ID = o[j].ID THEN i < j ELSE o[i].ID < o[j].ID

Swap(o, i, j) == [o EXCEPT ![i] = o[j], ![j] = o[i]]

Minus(o, oid) == SelectSeq(o, LAMBDA opt : opt.ID # oid)

(***************************************************************************)
(* sort.Sort(&m.opts).  The standard library documents the sort as not     *)
(* stable; what it does depends on the release and on the length:          *)
(*  - up to 12 elements: insertion sort, which the releases before 1.19    *)
(*    precede by one Shell pass with gap 6;                                *)
(*  - above 12 elements: a quicksort variant, modelled by its contract     *)
(*    (any arrangement in ascending identifier order).                     *)
(***************************************************************************)
RECURSIVE insertInner(_, _)
insertInner(o, j) ==
    IF j > 1 /\ Less(o, j, j - 1) THEN insertInner(Swap(o, j, j - 1), j - 1) ELSE o

RECURSIVE insertOuter(_, _)
insertOuter(o, i) ==
    IF i <= Len(o) THEN insertOuter(insertInner(o, i), i + 1) ELSE o

insertionSort(o) == insertOuter(o, 2)

RECURSIVE shellPass(_, _)
shellPass(o, i) ==
    IF i <= Len(o)
    THEN shellPass(IF Less(o, i, i - 6) THEN Swap(o, i, i - 6) ELSE o, i + 1)
    ELSE o

RemoveAt(s, i) == SubSeq(s, 1, i - 1) \o SubSeq(s, i + 1, Len(s))

\* every arrangement of o in ascending identifier order
RECURSIVE ascending(_)
ascending(o) ==
    IF o = <<>> THEN { <<>> }
    ELSE LET lo == { i \in 1..Len(o) :
                       /\ \A j \in 1..Len(o) : o[i].ID <= o[j].ID
                       /\ \A k \in 1..(i - 1) : o[k] # o[i] }
         IN UNION { { <<o[i]>> \o rest : rest \in ascending(RemoveAt(o, i)) } : i \in lo }

sortSort(o) ==
    IF Len(o) <= 12
    THEN { insertionSort(o), insertionSort(shellPass(o, 7)) }
    ELSE ascending(o)

(***************************************************************************)
(* encodeMessage                                                           *)
(***************************************************************************)
\* the four header bytes
header(msg) ==
    << BitOr(BitOr(64, Shl4(msg.Type)), BitAnd(15, Len(msg.opts))),
       byte(msg.Code) >> \o PutUint16(msg.MessageID)

\* the one or two bytes written before an option's value
prefix(delta, len) ==
    IF len > 15
    THEN << BitOr(Shl4(byte(delta)), 15), byte(len - 15) >>
    ELSE << BitOr(Shl4(byte(delta)), byte(len)) >>

\* the loop over the sorted options; entries records what each iteration wrote
RECURSIVE encodeOpts(_, _, _, _, _)
encodeOpts(opts, i, prev, buf, entries) ==
    IF i > Len(opts)
    THEN [err |-> "nil", bytes |-> buf, entries |-> entries]
    ELSE LET o == opts[i]
         IN IF toBytesPanics(o)
            THEN [err |-> "panic", bytes |-> <<>>, entries |-> entries]
            ELSE LET b == toBytes(o)
                     delta == o.ID - prev
                     pre == prefix(delta, Len(b))
                 IN IF delta > 15
                    THEN [err |-> "OptionGapTooLarge", bytes |-> <<>>,
                          entries |-> entries]
                    ELSE encodeOpts(opts, i + 1, o.ID, buf \o pre \o b,
                             Append(entries,
                                 [ID |-> o.ID, prefix |-> pre, value |-> b]))

tooManyOff(opts) == Len(opts) > MaxOptions + 1

tooMany(opts) == Len(opts) > MaxOptions

\* The possible results of encodeMessage(msg): err, the bytes returned, the
\* option list as the call leaves it (the sort is in place, on the caller's
\* backing array) and the entries written.
encodeMessage(msg) ==
    IF tooMany(msg.opts)
    THEN { [err |-> "TooManyoptions", bytes |-> <<>>, entries |-> <<>>,
            opts |-> msg.opts] }
    ELSE { LET r == encodeOpts(s, 1, 0, header(msg), <<>>)
           IN [err |-> r.err, bytes |-> (r.bytes \o IF r.err = "nil" THEN msg.Payload ELSE <<>>),
               entries |-> r.entries, opts |-> s]
           : s \in sortSort(msg.opts) }

(***************************************************************************)
(* parseMessage                                                            *)
(***************************************************************************)
NoMessage ==
    [Type |-> 0, Code |-> 0, MessageID |-> 0, Payload |-> <<>>, opts |-> <<>>]

IntIDs == {ContentType, MaxAge, URIPort, Accept}
StringIDs == {ProxyURI, URIHost, LocationPath, LocationQuery, URIPath, UriQuery}

\* the value an option identifier gives to the raw bytes
fromWire(oid, raw) ==
    IF oid \in IntIDs THEN U32(decodeInt(raw))
    ELSE IF oid \in StringIDs THEN Str(raw)
    ELSE Bytes(raw)

RECURSIVE parseOpts(_, _, _, _, _)
parseOpts(b, i, opCount, prev, rv) ==
    IF ~(i < opCount /\ Len(b) > 0)
    THEN [err |-> "nil", msg |-> [rv EXCEPT !.Payload = b]]
    ELSE LET oid == byte(prev + Shr4(b[1]))
             l0 == BitAnd(b[1], 15)
             b1 == Tail(b)
         IN IF l0 > 14 /\ Len(b1) = 0
            THEN [err |-> "panic", msg |-> rv]      \* b[0] on an empty slice
            ELSE LET l == IF l0 > 14 THEN l0 + b1[1] ELSE l0
                     b2 == IF l0 > 14 THEN Tail(b1) ELSE b1
                 IN IF Len(b2) < l
                    THEN [err |-> "Truncated", msg |-> rv]
                    ELSE LET raw == SubSeq(b2, 1, l)
                         IN IF oid \in IntIDs /\ decodeIntPanics(raw)
                            THEN [err |-> "panic", msg |-> rv]
                            ELSE parseOpts(SubSeq(b2, l + 1, Len(b2)), i + 1,
                                     opCount, oid,
                                     [rv EXCEPT !.opts =
                                         Append(@, Opt(oid, fromWire(oid, raw)))])

shortPacketOff(data) == Len(data) <= MinPacket

shortPacket(data) == Len(data) < MinPacket

parseMessage(data) ==
    IF shortPacket(data)
    THEN [err |-> "Short packet", msg |-> NoMessage]
    ELSE IF Shr6(data[1]) # 1
    THEN [err |-> "Invalid version", msg |-> NoMessage]
    ELSE LET rv1 == [NoMessage EXCEPT !.Type = BitAnd(Shr4(data[1]), 3)]
             opCount == BitAnd(data[1], 15)
         IN IF opCount > MaxOptions
            THEN [err |-> "TooManyoptions", msg |-> rv1]
            ELSE parseOpts(SubSeq(data, 5, Len(data)), 0, opCount, 0,
                     [rv1 EXCEPT !.Code = data[2],
                                 !.MessageID = Uint16(SubSeq(data, 3, 4))])


(***************************************************************************)
(* Message operations (message.go) and the server entry points (server.go) *)
(***************************************************************************)
NoResult == [err |-> "none", bytes |-> <<>>, entries |-> <<>>, opts |-> <<>>]
NoParse == [err |-> "none", msg |-> NoMessage]

AddOption(opId, val) ==
    /\ pc = "idle"
    /\ m' = [m EXCEPT !.opts = Append(@, Opt(opId, val))]
    /\ UNCHANGED <<before, enc, wire, rcv, pc>>

RemoveOption(opId) ==
    /\ pc = "idle"
    /\ m' = [m EXCEPT !.opts = Minus(@, opId)]
    /\ UNCHANGED <<before, enc, wire, rcv, pc>>

SetOption(opId, val) ==
    /\ pc = "idle"
    /\ m' = [m EXCEPT !.opts = Append(Minus(@, opId), Opt(opId, val))]
    /\ UNCHANGED <<before, enc, wire, rcv, pc>>

\* SetPath(s): RemoveOption(URIPath), then AddOption(URIPath, p) for each
\* segment p of s
SetPath(s) ==
    /\ pc = "idle"
    /\ m' = [m EXCEPT !.opts = Minus(@, URIPath) \o
                                [i \in 1..Len(s) |-> Opt(URIPath, Str(s[i]))]]
    /\ UNCHANGED <<before, enc, wire, rcv, pc>>

\* Transmit(l, a, m): encodeMessage, then write the bytes unless it failed.
\* A panic of encodeMessage ends the program.
Transmit ==
    /\ pc = "idle"
    /\ \E r \in encodeMessage(m) :
          /\ enc' = r
          /\ m' = [m EXCEPT !.opts = r.opts]
          /\ wire' = IF r.err = "nil" THEN r.bytes ELSE wire
          /\ pc' = IF r.err = "nil" THEN "sent" ELSE "done"
    /\ before' = m
    /\ UNCHANGED rcv

\* handlePacket / Receive: parseMessage of the datagram read from the socket.
handlePacket ==
    /\ pc = "sent"
    /\ rcv' = parseMessage(wire)
    /\ pc' = "done"
    /\ UNCHANGED <<m, before, enc, wire>>

(***************************************************************************)
(* Bounded inputs.                                                         *)
(***************************************************************************)
MaxPayload == 2      \* longest payload of a built message
MaxOpts == 2         \* most options added under Spec
MaxBody == 6         \* most bytes after the header of an inbound datagram
MaxSortOpts == 7     \* most options added under SpecSort
MaxExtra == 1        \* options added beyond MaxOptions under SpecCount
MaxIntOpts == 2      \* most options added under SpecInt
MaxLongOpts == 2     \* most options added under SpecLong

RECURSIVE SeqsUpTo(_, _)
SeqsUpTo(S, n) ==
    IF n = 0 THEN { <<>> }
    ELSE LET shorter == SeqsUpTo(S, n - 1)
         IN shorter \cup { Append(q, x) : q \in shorter, x \in S }

Types == {Confirmable, NonConfirmable, Acknowledgement, Reset}
CodeIDs == { <<GET, 258>>, <<Content, 65535>> }
PayloadBytes == {0, 255}
Payloads == SeqsUpTo(PayloadBytes, MaxPayload)

\* inbound datagrams: a header byte 0 (one option, two options, option
\* count 15, version 0), code and message id, then up to MaxBody bytes
HeadBytes == {65, 66, 79, 2}
BodyBytes == {0, 21, 31}
Datagrams ==
    { <<h, GET, 18, 52>> \o body : h \in HeadBytes, body \in SeqsUpTo(BodyBytes, MaxBody) }

\* option alphabets
Options ==
    { Opt(ContentType, Media(<<0, 50>>)),
      Opt(ETag, Bytes(<<0>>)),
      Opt(URIPath, Str(Rep(97, 14))),
      Opt(URIPath, Str(Rep(98, 15))),
      Opt(URIHost, Str(Rep(99, 16))),
      Opt(IfNoneMatch, Bytes(<<>>)),
      Opt(IfNoneMatch, Nil) }

\* values at the end of the two-byte length form
LongOptions ==
    { Opt(ContentType, Media(<<0, 50>>)),
      Opt(ProxyURI, Str(Rep(99, 270))),
      Opt(URIHost, Str(Rep(100, 271))) }

SortOptions ==
    { Opt(URIPath, Str(<<97>>)), Opt(URIPath, Str(<<98>>)), Opt(ContentType, Media(<<0, 0>>)) }

\* a path of n segments "a"
Path(n) == [i \in 1..n |-> <<97>>]

\* 32-bit samples: both halves range over the values next to the thresholds
Halves == {0, 1, 255, 256, 65535}
IntSamples == Halves \X Halves
IntOptions == { Opt(MaxAge, U32(v)) : v \in IntSamples }

InitWith(types, payloads, datagrams) ==
    /\ before = NoMessage
    /\ enc = NoResult
    /\ rcv = NoParse
    /\ \/ /\ pc = "idle"
          /\ wire = <<>>
          /\ \E t \in types, c \in CodeIDs, p \in payloads :
                m = [Type |-> t, Code |-> c[1], MessageID |-> c[2],
                     Payload |-> p, opts |-> <<>>]
       \/ /\ pc = "sent"
          /\ wire \in datagrams
          /\ m = NoMessage

Build(alphabet, cap) ==
    \E o \in alphabet :
        \/ Len(m.opts) < cap /\ AddOption(o.ID, o.Value)
        \/ RemoveOption(o.ID)
        \/ Len(Minus(m.opts, o.ID)) < cap /\ SetOption(o.ID, o.Value)

Init == InitWith(Types, Payloads, Datagrams)
Next == Build(Options, MaxOpts) \/ Transmit \/ handlePacket
Spec == Init /\ [][Next]_vars

InitLong == InitWith(Types, { <<>>, <<255, 0>> }, {})
NextLong == Build(LongOptions, MaxLongOpts) \/ Transmit \/ handlePacket
SpecLong == InitLong /\ [][NextLong]_vars

InitSort == InitWith({Confirmable}, { <<>>, <<255, 0>> }, {})
NextSort == Build(SortOptions, MaxSortOpts) \/ Transmit \/ handlePacket
SpecSort == InitSort /\ [][NextSort]_vars

InitCount == InitWith(Types, { <<>>, <<255, 0>> }, Datagrams)
BuildPath(cap) ==
    \/ \E n \in 0..cap :
          Len(Minus(m.opts, URIPath)) + n <= cap /\ SetPath(Path(n))
    \/ Len(m.opts) < cap /\ AddOption(ContentType, Media(<<0, 0>>))
    \/ RemoveOption(ContentType)
NextCount == BuildPath(MaxOptions + MaxExtra) \/ Transmit \/ handlePacket
SpecCount == InitCount /\ [][NextCount]_vars

InitInt == InitWith({Confirmable}, { <<>>, <<255, 0>> }, {})
NextInt == Build(IntOptions, MaxIntOpts) \/ Transmit \/ handlePacket
SpecInt == InitInt /\ [][NextInt]_vars


(***************************************************************************)
(* Vocabulary of the properties.                                           *)
(***************************************************************************)
Count(s, x) == Cardinality({ i \in 1..Len(s) : s[i] = x })
SameBag(s, t) == \A x \in Range(s) \cup Range(t) : Count(s, x) = Count(t, x)

\* an option as the wire can carry it: integer kinds are one kind
Norm(o) == IF o.Value.kind \in IntKinds THEN Opt(o.ID, U32(o.Value.n)) ELSE o
NormAll(opts) == [i \in 1..Len(opts) |-> Norm(opts[i])]

IDs(opts) == { opts[i].ID : i \in 1..Len(opts) }
\* the identifier that precedes id once opts is sorted (0 before the first)
PrevID(opts, id) ==
    LET below == { j \in IDs(opts) : j < id }
    IN IF below = {} THEN 0 ELSE CHOOSE j \in below : \A k \in below : k <= j
\* no identifier is more than 15 above the one before it
DeltasFit(opts) == \A id \in IDs(opts) : id - PrevID(opts, id) <= 15
AllKnown(opts) == \A i \in 1..Len(opts) : opts[i].Value.kind \in KnownKinds

Encoded == enc.err # "none"
Parsed == rcv.err # "none"
\* the datagram parsed is the one Transmit wrote
RoundTripped == Encoded /\ enc.err = "nil" /\ Parsed

\* the delta of entry i of the entries written
EntryDelta(entries, i) ==
    entries[i].ID - (IF i = 1 THEN 0 ELSE entries[i - 1].ID)

WithID(opts, id) == SelectSeq(opts, LAMBDA o : o.ID = id)
Ascending(opts) == \A i \in 1..(Len(opts) - 1) : opts[i].ID <= opts[i + 1].ID

\* big-endian bytes of a 32-bit number without its leading zero bytes
RECURSIVE StripZeros(_)
StripZeros(b) == IF b # <<>> /\ b[1] = 0 THEN StripZeros(Tail(b)) ELSE b
Minimal(v) ==
    StripZeros(<< v[1] \div 256, v[1] % 256, v[2] \div 256, v[2] % 256 >>)
MinimalLen(v) ==
    IF v = <<0, 0>> THEN 0
    ELSE IF v[1] = 0 /\ v[2] <= 255 THEN 1
    ELSE IF v[1] = 0 THEN 2
    ELSE IF v[1] <= 255 THEN 3
    ELSE 4

(***************************************************************************)
(* C1: round trip.  A message with at most 14 options of known kinds whose *)
(* sorted identifier deltas are at most 15 encodes without error, and the  *)
(* bytes parse without error to a message with the same type, code,        *)
(* message id, payload and bag of (identifier, value) options.  (Stated    *)
(* for the encodings of at least 6 bytes, the shortest parseMessage takes; *)
(* the claim as written also covers the shorter ones.)                     *)
(***************************************************************************)
C1_RoundTrip ==
    (Encoded /\ Len(before.opts) <= MaxOptions /\ AllKnown(before.opts)
             /\ DeltasFit(before.opts))
    => /\ enc.err = "nil"
       /\ (Parsed /\ Len(enc.bytes) >= MinPacket) =>
            /\ rcv.err = "nil"
            /\ rcv.msg.Type = before.Type
            /\ rcv.msg.Code = before.Code
            /\ rcv.msg.MessageID = before.MessageID
            /\ rcv.msg.Payload = before.Payload
            /\ SameBag(NormAll(rcv.msg.opts), NormAll(before.opts))

(***************************************************************************)
(* C2: parseMessage never panics, whatever bytes it is given.              *)
(***************************************************************************)
C2_ParseNeverPanics == rcv.err # "panic"

(***************************************************************************)
(* C3: every option written with a value of L <= 14 bytes has the one      *)
(* prefix byte delta<<4 | L, and one with 15 <= L <= 270 bytes has the two *)
(* prefix bytes delta<<4 | 15 and L - 15.                                  *)
(***************************************************************************)
C3_LengthExtension ==
    enc.err = "nil" =>
        \A i \in 1..Len(enc.entries) :
            LET e == enc.entries[i]
                L == Len(e.value)
                d == EntryDelta(enc.entries, i)
            IN /\ L <= 14 => e.prefix = << d * 16 + L >>
               /\ (15 <= L /\ L <= 270) => e.prefix = << d * 16 + 15, L - 15 >>

(***************************************************************************)
(* C4 as stated: a message with no options and any payload encodes, and    *)
(* the bytes parse to a message with no options and the same payload.      *)
(***************************************************************************)
C4_PayloadAnyLength ==
    (Encoded /\ before.opts = <<>>)
    => /\ enc.err = "nil"
       /\ Parsed => /\ rcv.err = "nil"
                    /\ rcv.msg.opts = <<>>
                    /\ rcv.msg.Payload = before.Payload

(***************************************************************************)
(* C4 amended: a message of one of the four types with no options and a    *)
(* payload of at least 2 bytes encodes, and the bytes parse to a message   *)
(* with no options and the same payload; with a payload of 0 or 1 bytes    *)
(* the bytes are fewer than 6 and parseMessage fails with "Short packet".  *)
(***************************************************************************)
C4_PayloadPassThrough ==
    (Encoded /\ before.opts = <<>>)
    => /\ enc.err = "nil"
       /\ (Parsed /\ Len(before.Payload) >= 2)
            => /\ rcv.err = "nil"
               /\ rcv.msg.opts = <<>>
               /\ rcv.msg.Payload = before.Payload
       /\ (Parsed /\ Len(before.Payload) < 2) => rcv.err = "Short packet"

C4_Witness ==
    /\ RoundTripped
    /\ before.opts = <<>>
    /\ before.Payload = <<255, 0>>
    /\ rcv.err = "nil"
    /\ rcv.msg.Payload = <<255, 0>>

(***************************************************************************)
(* C5: encodeMessage does not return bytes for a message with an option    *)
(* whose wire value is longer than 270 bytes.                              *)
(***************************************************************************)
C5_NoLengthTruncation ==
    enc.err = "nil" =>
        \A i \in 1..Len(enc.entries) : Len(enc.entries[i].value) <= 270

(***************************************************************************)
(* C6: for a message with at most 14 options, encodeMessage returns        *)
(* OptionGapTooLarge and no bytes exactly when some identifier is more     *)
(* than 15 above the one before it in sorted order; otherwise every delta  *)
(* nibble written is identifier - previous identifier.                     *)
(***************************************************************************)
C6_GapRejection ==
    (Encoded /\ Len(before.opts) <= MaxOptions)
    => /\ (enc.err = "OptionGapTooLarge" /\ enc.bytes = <<>>)
            <=> ~DeltasFit(before.opts)
       /\ enc.err = "nil" =>
            \A i \in 1..Len(enc.entries) :
                Shr4(enc.entries[i].prefix[1]) = EntryDelta(enc.entries, i)

(***************************************************************************)
(* C7: after encodeMessage of a message with at most 14 options the option *)
(* list is in ascending identifier order, the entries are written in that  *)
(* order, and options that share an identifier keep the order they had     *)
(* before the call.                                                        *)
(***************************************************************************)
C7_StableSort ==
    (Encoded /\ Len(before.opts) <= MaxOptions)
    => /\ Ascending(m.opts)
       /\ \A id \in IDs(before.opts) : WithID(m.opts, id) = WithID(before.opts, id)
       /\ enc.err = "nil" =>
            /\ Len(enc.entries) = Len(m.opts)
            /\ \A i \in 1..Len(m.opts) : enc.entries[i].ID = m.opts[i].ID

(***************************************************************************)
(* C8: encodeMessage of a message that holds an option value of an         *)
(* unknown kind returns an error: it neither panics nor returns bytes.     *)
(***************************************************************************)
C8_InvalidTypeIsReturned ==
    (Encoded /\ ~AllKnown(before.opts)) => enc.err \notin {"nil", "panic"}

(***************************************************************************)
(* C9: encodeMessage of more than 14 options returns TooManyoptions, no    *)
(* bytes, and leaves the option list as it was; parseMessage of at least 6 *)
(* bytes with version 1 and option count 15 returns TooManyoptions; the    *)
(* low nibble of byte 0 of every encoding is the number of entries written.*)
(***************************************************************************)
C9_OptionCountCap ==
    /\ (Encoded /\ Len(before.opts) > 14)
         => /\ enc.err = "TooManyoptions"
            /\ enc.bytes = <<>>
            /\ m.opts = before.opts
    /\ (Parsed /\ Len(wire) >= 6 /\ wire[1] \div 64 = 1 /\ wire[1] % 16 = 15)
         => rcv.err = "TooManyoptions"
    /\ enc.err = "nil" => enc.bytes[1] % 16 = Len(enc.entries)
    /\ enc.err = "nil" => Len(enc.entries) = Len(before.opts)

C9_Witness ==
    /\ Encoded
    /\ Len(before.opts) = 15
    /\ ~Ascending(before.opts)
    /\ enc.err = "TooManyoptions"
    /\ m.opts = before.opts

(***************************************************************************)
(* C10: encodeInt(v) is the big-endian representation of v without leading *)
(* zero bytes (0, 1, 2, 3 or 4 bytes long by the thresholds 1, 256, 65536  *)
(* and 16777216), and decodeInt(encodeInt(v)) = v; an integer option comes *)
(* back from parseMessage with the value it was sent with.                 *)
(***************************************************************************)
C10_IntegerMinimal ==
    /\ \A i \in 1..Len(m.opts) :
          m.opts[i].Value.kind \in IntKinds =>
             LET v == m.opts[i].Value.n
                 b == toBytes(m.opts[i])
             IN /\ b = Minimal(v)
                /\ Len(b) = MinimalLen(v)
                /\ decodeInt(b) = v
    /\ ( /\ RoundTripped
         /\ rcv.err = "nil"
         /\ \A i \in 1..Len(m.opts) :
               m.opts[i].ID \in IntIDs /\ m.opts[i].Value.kind \in IntKinds )
       => /\ Len(rcv.msg.opts) = Len(m.opts)
          /\ \A i \in 1..Len(m.opts) :
                /\ enc.entries[i].value = Minimal(m.opts[i].Value.n)
                /\ rcv.msg.opts[i].Value = U32(m.opts[i].Value.n)

C10_Witness ==
    /\ RoundTripped
    /\ rcv.err = "nil"
    /\ Len(m.opts) = 2
    /\ m.opts[1].Value.n = <<0, 255>>
    /\ m.opts[2].Value.n = <<256, 0>>
    /\ Len(enc.entries[1].value) = 1
    /\ Len(enc.entries[2].value) = 4
    /\ rcv.msg.opts[2].Value = U32(<<256, 0>>)

=============================================================================
